---- MODULE Spec2Model ----
(***************************************************************************)
(* MLPSpeculatorWorker of vllm/spec_decode/mlp_speculator_worker.py:       *)
(* the batch assembly of prepare_input_tensors, the per-request           *)
(* acceptance map prev_request_context_lengths, and the driver             *)
(* sampler_output.                                                         *)
(***************************************************************************)
EXTENDS Integers, Sequences, FiniteSets, TLC

\* ------------------------------------------------------------- bounds
\* longest token history of a sequence in a call that follows other calls
MaxLen == 1
\* longest token history of a sequence in the first call of a worker
MaxFirstLen == 3
\* largest token_chunk_size of a sequence group
MaxChunk == 3
\* prompt length, and longest token history, of a sequence whose request is
\* followed through its stages
StagePromptLen == 2
MaxStageLen == 5
\* largest sample_len passed to sampler_output
MaxSampleLen == 1
\* longest token history of a sequence in a call that runs beside another call
MaxRaceLen == 2
\* token id found at position 0 of every history (position p holds TokenBase + p)
TokenBase == 100

\* how many sequences one sequence group can hold
SeqCounts == {0, 1, 2}

RequestIds == {"r1", "r2"}

Min(a, b) == IF a <= b THEN a ELSE b

\* ------------------------------------------------- SequenceData accessors
\* A sequence's data is [len, num_computed_tokens]; its token history is
\* TokenBase, TokenBase + 1, ... (one id per position).
get_len(seq_data) == seq_data.len

get_num_computed_tokens(seq_data) == seq_data.num_computed_tokens

get_token_ids(seq_data) == [i \in 1..seq_data.len |-> TokenBase + (i - 1)]

get_last_token_id(seq_data) == get_token_ids(seq_data)[get_len(seq_data)]

\* Python's s[a:b] for 0 <= a and 0 <= b
Slice(s, a, b) ==
    LET lo == Min(a, Len(s))
        hi == Min(b, Len(s))
    IN  IF hi <= lo THEN <<>> ELSE SubSeq(s, lo + 1, hi)

\* Python's list(range(a, b))
Range(a, b) == IF b <= a THEN <<>> ELSE [i \in 1..(b - a) |-> a + (i - 1)]

\* dict assignment m[k] = v
DictSet(m, k, v) == [x \in (DOMAIN m) \cup {k} |-> IF x = k THEN v ELSE m[x]]

EmptyDict == [x \in {} |-> 0]

\* ------------------------------------------- prepare_input_tensors, per sequence
\* (mutant) the computed-token count is trusted for decoding sequences too
context_len_always_computed(is_prompt, seq_data) ==
    get_num_computed_tokens(seq_data)

context_len(is_prompt, seq_data) ==
    IF is_prompt
    THEN get_num_computed_tokens(seq_data)
    ELSE get_len(seq_data) - 1

\* (mutant) the chunk is not clipped to the history
seq_len_no_min(seq_data, ctx, token_chunk_size) == ctx + token_chunk_size

seq_len(seq_data, ctx, token_chunk_size) ==
    Min(get_len(seq_data), ctx + token_chunk_size)

tokens(is_prompt, seq_data, ctx, sl) ==
    IF is_prompt
    THEN Slice(get_token_ids(seq_data), ctx, sl)
    ELSE <<get_last_token_id(seq_data)>>

\* The acceptance bookkeeping of one sequence: the delta against the recorded
\* context length when the request is in the map, then the unconditional store.
\* accepted_request_ids names, entry by entry, the request each delta was
\* appended for.
\* (mutant) the record of a request is written once and kept
track_keep_first(st, request_id, ctx) ==
    LET seen == request_id \in DOMAIN st.prev
    IN  [st EXCEPT
            !.accepted_lengths_list =
                IF seen THEN Append(@, ctx - st.prev[request_id]) ELSE @,
            !.accepted_request_ids =
                IF seen THEN Append(@, request_id) ELSE @,
            !.prev = IF seen THEN @ ELSE DictSet(@, request_id, ctx)]

\* (mutant) the store comes before the delta
track_store_first(st, request_id, ctx) ==
    LET seen == request_id \in DOMAIN st.prev
        stored == DictSet(st.prev, request_id, ctx)
    IN  [st EXCEPT
            !.accepted_lengths_list =
                IF seen THEN Append(@, ctx - stored[request_id]) ELSE @,
            !.accepted_request_ids =
                IF seen THEN Append(@, request_id) ELSE @,
            !.prev = stored]

track(st, request_id, ctx) ==
    LET seen == request_id \in DOMAIN st.prev
    IN  [st EXCEPT
            !.accepted_lengths_list =
                IF seen THEN Append(@, ctx - st.prev[request_id]) ELSE @,
            !.accepted_request_ids =
                IF seen THEN Append(@, request_id) ELSE @,
            !.prev = DictSet(@, request_id, ctx)]

\* the body of the loop over seq_ids
process_seq(st, group, seq_data) ==
    LET ctx == context_len(group.is_prompt, seq_data)
        sl == seq_len(seq_data, ctx, group.token_chunk_size)
        toks == tokens(group.is_prompt, seq_data, ctx, sl)
        st1 == [st EXCEPT
                   !.seq_lens = Append(@, sl),
                   !.context_lens = Append(@, ctx),
                   !.query_lens = Append(@, sl - ctx),
                   !.input_tokens = @ \o toks,
                   !.input_positions = @ \o Range(ctx, sl),
                   !.seq_request_ids = Append(@, group.request_id)]
    IN  track(st1, group.request_id, ctx)

RECURSIVE process_seqs(_, _, _)
process_seqs(st, group, i) ==
    IF i > Len(group.seq_data)
    THEN st
    ELSE process_seqs(process_seq(st, group, group.seq_data[i]), group, i + 1)

RECURSIVE process_groups(_, _, _)
process_groups(st, groups, i) ==
    IF i > Len(groups)
    THEN st
    ELSE process_groups(process_seqs(st, groups[i], 1), groups, i + 1)

\* the lists as they stand before the loop
fresh_lists(prev) ==
    [input_tokens |-> <<>>, input_positions |-> <<>>, seq_lens |-> <<>>,
     context_lens |-> <<>>, query_lens |-> <<>>,
     accepted_lengths_list |-> <<>>, accepted_request_ids |-> <<>>,
     seq_request_ids |-> <<>>, prev |-> prev]

\* the lists a call built, without the map
lists_of(st) == [f \in (DOMAIN st) \ {"prev"} |-> st[f]]

\* ModelInput.empty(device): zero sequences, zero tokens
ModelInput_empty == lists_of(fresh_lists(EmptyDict))

\* `not seq_group_metadata_list`: the list is None or has no element
is_falsy(lst) == lst.is_none \/ lst.items = <<>>

\* (mutant) no early return: an empty list runs through the loop and the write
prepare_input_tensors_no_early_return(lst, prev, fds, atl) ==
    LET st == process_groups(fresh_lists(prev), lst.items, 1)
    IN  [empty |-> is_falsy(lst), lists |-> lists_of(st),
         wrote_feedback |-> ~fds,
         prev |-> st.prev,
         accepted_token_lengths |->
             IF ~fds THEN st.accepted_lengths_list ELSE atl]

\* (mutant) the entries of a call are added to those the field already holds
prepare_input_tensors_accumulating(lst, prev, fds, atl) ==
    IF is_falsy(lst)
    THEN [empty |-> TRUE, lists |-> ModelInput_empty, wrote_feedback |-> FALSE,
          prev |-> prev, accepted_token_lengths |-> atl]
    ELSE LET st == process_groups(fresh_lists(prev), lst.items, 1)
         IN  [empty |-> FALSE, lists |-> lists_of(st), wrote_feedback |-> ~fds,
              prev |-> st.prev,
              accepted_token_lengths |->
                  IF ~fds THEN atl \o st.accepted_lengths_list ELSE atl]

\* (mutant) the map is pruned to the requests of the batch
prepare_input_tensors_pruning(lst, prev, fds, atl) ==
    IF is_falsy(lst)
    THEN [empty |-> TRUE, lists |-> ModelInput_empty, wrote_feedback |-> FALSE,
          prev |-> prev, accepted_token_lengths |-> atl]
    ELSE LET st == process_groups(fresh_lists(prev), lst.items, 1)
             ids == {lst.items[i].request_id : i \in 1..Len(lst.items)}
         IN  [empty |-> FALSE, lists |-> lists_of(st), wrote_feedback |-> ~fds,
              prev |-> [r \in (DOMAIN st.prev) \cap ids |-> st.prev[r]],
              accepted_token_lengths |->
                  IF ~fds THEN st.accepted_lengths_list ELSE atl]

\* What one call computes: the returned lists (or the empty-batch sentinel), the
\* map and the model's accepted_token_lengths field after the call.
prepare_input_tensors(lst, prev, fds, atl) ==
    IF is_falsy(lst)
    THEN [empty |-> TRUE, lists |-> ModelInput_empty, wrote_feedback |-> FALSE,
          prev |-> prev, accepted_token_lengths |-> atl]
    ELSE LET st == process_groups(fresh_lists(prev), lst.items, 1)
         IN  [empty |-> FALSE, lists |-> lists_of(st), wrote_feedback |-> ~fds,
              prev |-> st.prev,
              accepted_token_lengths |->
                  IF ~fds THEN st.accepted_lengths_list ELSE atl]

\* (mutant) the assertion accepts a short list
output_count_at_most(n_outputs, sample_len) == n_outputs <= sample_len

\* `assert len(model_outputs) == sample_len`
output_count_ok(n_outputs, sample_len) == n_outputs = sample_len

\* _raise_if_unsupported(execute_model_req): the policy is the validator's;
\* the request carries its verdict.
raise_if_unsupported(execute_model_req) == ~execute_model_req.supported

\* how a call that reached generate_proposals ends
status_after(gen, sample_len) ==
    IF gen.raises THEN "ModelError"
    ELSE IF output_count_ok(gen.n, sample_len) THEN "ok"
    ELSE "AssertionError"

\* (mutant) the batch is assembled before the request is validated
sampler_output_validate_late(execute_model_req, sample_len, gen, prev, fds, atl) ==
    LET a == prepare_input_tensors(
                 execute_model_req.seq_group_metadata_list, prev, fds, atl)
        bad == raise_if_unsupported(execute_model_req)
        status == IF bad THEN "NotImplementedError"
                  ELSE status_after(gen, sample_len)
    IN  [status |-> status, assembled |-> TRUE, asm |-> a, prev |-> a.prev,
         accepted_token_lengths |-> a.accepted_token_lengths,
         generate_calls |-> IF bad THEN 0 ELSE 1,
         n_outputs |-> IF bad \/ gen.raises THEN 0 ELSE gen.n,
         returned |-> status = "ok", transpose |-> status = "ok"]

\* (mutant) a call that fails after assembly puts the map back
sampler_output_rollback(execute_model_req, sample_len, gen, prev, fds, atl) ==
    LET a == prepare_input_tensors(
                 execute_model_req.seq_group_metadata_list, prev, fds, atl)
        bad == raise_if_unsupported(execute_model_req)
        status == IF bad THEN "NotImplementedError"
                  ELSE status_after(gen, sample_len)
    IN  [status |-> status, assembled |-> ~bad, asm |-> a,
         prev |-> IF status = "ok" THEN a.prev ELSE prev,
         accepted_token_lengths |->
             IF bad THEN atl ELSE a.accepted_token_lengths,
         generate_calls |-> IF bad THEN 0 ELSE 1,
         n_outputs |-> IF bad \/ gen.raises THEN 0 ELSE gen.n,
         returned |-> status = "ok", transpose |-> status = "ok"]

\* (mutant) the transpose indicator follows the batch: false for a batch of
\* prompts
sampler_output_flag_by_batch(execute_model_req, sample_len, gen, prev, fds, atl) ==
    LET lst == execute_model_req.seq_group_metadata_list
        a == prepare_input_tensors(lst, prev, fds, atl)
        bad == raise_if_unsupported(execute_model_req)
        status == IF bad THEN "NotImplementedError"
                  ELSE status_after(gen, sample_len)
    IN  [status |-> status, assembled |-> ~bad, asm |-> a,
         prev |-> IF bad THEN prev ELSE a.prev,
         accepted_token_lengths |->
             IF bad THEN atl ELSE a.accepted_token_lengths,
         generate_calls |-> IF bad THEN 0 ELSE 1,
         n_outputs |-> IF bad \/ gen.raises THEN 0 ELSE gen.n,
         returned |-> status = "ok",
         transpose |->
             /\ status = "ok"
             /\ \E i \in 1..Len(lst.items) : ~lst.items[i].is_prompt]

\* One call of sampler_output. gen is what generate_proposals does when it is
\* reached: it raises, or returns gen.n outputs. The empty-batch sentinel is
\* taken to unpack into four zero-length lists, so an empty batch goes on to
\* generate_proposals like any other.
sampler_output(execute_model_req, sample_len, gen, prev, fds, atl) ==
    IF raise_if_unsupported(execute_model_req)
    THEN [status |-> "NotImplementedError", assembled |-> FALSE,
          asm |-> prepare_input_tensors([is_none |-> TRUE, items |-> <<>>],
                                        prev, fds, atl),
          prev |-> prev, accepted_token_lengths |-> atl,
          generate_calls |-> 0, n_outputs |-> 0, returned |-> FALSE,
          transpose |-> FALSE]
    ELSE LET a == prepare_input_tensors(
                      execute_model_req.seq_group_metadata_list, prev, fds, atl)
             status == status_after(gen, sample_len)
         IN  [status |-> status, assembled |-> TRUE, asm |-> a,
              prev |-> a.prev,
              accepted_token_lengths |-> a.accepted_token_lengths,
              generate_calls |-> 1,
              n_outputs |-> IF gen.raises THEN 0 ELSE gen.n,
              returned |-> status = "ok",
              transpose |-> status = "ok"]

\* ------------------------------------------------------------- inputs
\* every [len, num_computed_tokens] with at most most tokens
SeqDatas(most) ==
    {sd \in [len : 1..most, num_computed_tokens : 0..most] :
        sd.num_computed_tokens <= sd.len}

\* the sequence data met in a call that follows other calls: a prompt of most
\* tokens computed up to any point, or a decoding sequence of any length
CallSeqDatas(is_prompt, most) ==
    IF is_prompt
    THEN {[len |-> most, num_computed_tokens |-> c] : c \in 0..most}
    ELSE {[len |-> l, num_computed_tokens |-> l] : l \in 1..most}

Injective(f) == \A i, j \in DOMAIN f : f[i] = f[j] => i = j

\* the orders in which distinct requests can stand in one batch
IdLists ==
    {ids \in UNION {[1..n -> RequestIds] : n \in 0..Cardinality(RequestIds)} :
        Injective(ids)}

\* A batch holds one sequence group of any size, or several groups of one
\* sequence each.
SeqCountsIn(ids) == IF Len(ids) = 1 THEN SeqCounts ELSE {1}

\* the bodies of the groups of a call that follows other calls
CallBodies(counts, most) ==
    UNION {[is_prompt : {p}, token_chunk_size : {MaxChunk},
            seq_data : UNION {[1..n -> CallSeqDatas(p, most)] : n \in counts}] :
           p \in BOOLEAN}

\* the bodies of the groups of a first call
FirstBodies(counts) ==
    [is_prompt : BOOLEAN, token_chunk_size : 0..MaxChunk,
     seq_data : UNION {[1..n -> SeqDatas(MaxFirstLen)] : n \in counts}]

\* the list of sequence groups whose request ids are ids and whose bodies are b
GroupList(ids, b) ==
    [is_none |-> FALSE,
     items |-> [i \in 1..Len(ids) |->
                   [request_id |-> ids[i], is_prompt |-> b[i].is_prompt,
                    token_chunk_size |-> b[i].token_chunk_size,
                    seq_data |-> b[i].seq_data]]]

NoneList == [is_none |-> TRUE, items |-> <<>>]

\* the sequences of a batch in iteration order, each with its group's fields
RECURSIVE FlatFrom(_, _)
FlatFrom(items, i) ==
    IF i > Len(items)
    THEN <<>>
    ELSE [j \in 1..Len(items[i].seq_data) |->
             [request_id |-> items[i].request_id,
              is_prompt |-> items[i].is_prompt,
              token_chunk_size |-> items[i].token_chunk_size,
              seq_data |-> items[i].seq_data[j]]]
         \o FlatFrom(items, i + 1)

\* ------------------------------------------------------------- state
VARIABLES
    prev_request_context_lengths,  \* self.prev_request_context_lengths
    first_decode_step,             \* self.model_runner.model.first_decode_step
    accepted_token_lengths,        \* self.model_runner.model.accepted_token_lengths
    asm,    \* the latest call of prepare_input_tensors: its argument and result
    call,   \* the latest call of sampler_output: how it ended
    hist,   \* request id -> context length recorded by the calls before asm
    stage,  \* request id -> how far the request had come at its latest call
    threads \* thread -> the call it is executing, statement by statement

vars == <<prev_request_context_lengths, first_decode_step,
          accepted_token_lengths, asm, call, hist, stage, threads>>

NoAsm ==
    [op |-> "none", lst |-> NoneList, fds |-> FALSE, prev_before |-> EmptyDict,
     empty |-> TRUE, lists |-> ModelInput_empty, wrote_feedback |-> FALSE]

NoCall ==
    [status |-> "none", assembled |-> FALSE, sample_len |-> 0,
     generate_calls |-> 0, n_outputs |-> 0, returned |-> FALSE,
     transpose |-> FALSE]

\* the threads that may call into the worker
Threads == {"t1", "t2"}

\* a thread that is not inside a call
IdleThread ==
    [op |-> "none", pc |-> "idle", step |-> 0,
     req |-> [seq_group_metadata_list |-> NoneList, supported |-> TRUE],
     sample_len |-> 0, gen |-> [raises |-> FALSE, n |-> 0],
     flat |-> <<>>, j |-> 0, ctx |-> 0, st |-> ModelInput_empty,
     empty |-> FALSE, status |-> "none", events |-> <<>>,
     generate_calls |-> 0, prev_at_begin |-> EmptyDict,
     began_after |-> {}, began_after_done |-> {}]

\* __init__: the map starts empty
Init ==
    /\ prev_request_context_lengths = EmptyDict
    /\ first_decode_step \in BOOLEAN
    /\ accepted_token_lengths = <<>>
    /\ asm = NoAsm
    /\ call = NoCall
    /\ hist = EmptyDict
    /\ stage = [r \in RequestIds |-> "new"]
    /\ threads = [t \in Threads |-> IdleThread]

\* ------------------------------------------------------------- history
\* the indices of the sequences of request r in the lists of call a
SeqsOf(a, r) ==
    {i \in 1..Len(a.lists.seq_request_ids) : a.lists.seq_request_ids[i] = r}

Last(S) == CHOOSE i \in S : \A j \in S : j <= i

\* request id -> context length of its last sequence in call a
RecordedBy(a) ==
    [r \in {q \in RequestIds : SeqsOf(a, q) # {}} |->
        a.lists.context_lens[Last(SeqsOf(a, r))]]

Merge(old, new) ==
    [r \in (DOMAIN old) \cup (DOMAIN new) |->
        IF r \in DOMAIN new THEN new[r] ELSE old[r]]

\* PREFILL -> CONTINUATION(1) -> CONTINUATION(2) -> ...
NextStage(s, is_prompt) ==
    IF is_prompt THEN "prefill"
    ELSE IF s \in {"new", "prefill"} THEN "cont1"
    ELSE "cont2"

\* the groups of request r that hold a sequence
GroupOf(lst, r) ==
    {i \in 1..Len(lst.items) :
        lst.items[i].request_id = r /\ lst.items[i].seq_data # <<>>}

StageAfter(st, lst) ==
    [r \in RequestIds |->
        IF GroupOf(lst, r) = {} THEN st[r]
        ELSE NextStage(st[r], lst.items[Last(GroupOf(lst, r))].is_prompt)]

\* the record of one call: its argument, the flag and the map it started from,
\* and what it returned
AsmOf(lst, fds, before, res) ==
    [op |-> "prepare_input_tensors", lst |-> lst, fds |-> fds,
     prev_before |-> before, empty |-> res.empty, lists |-> res.lists,
     wrote_feedback |-> res.wrote_feedback]

\* ------------------------------------------------------------- actions
\* a caller invokes prepare_input_tensors(lst)
PrepareInputTensors(lst) ==
    LET res == prepare_input_tensors(lst, prev_request_context_lengths,
                                     first_decode_step, accepted_token_lengths)
    IN  /\ prev_request_context_lengths' = res.prev
        /\ accepted_token_lengths' = res.accepted_token_lengths
        /\ asm' = AsmOf(lst, first_decode_step, prev_request_context_lengths, res)
        /\ hist' = Merge(hist, RecordedBy(asm))
        /\ UNCHANGED <<first_decode_step, call, threads>>

\* a caller invokes sampler_output(execute_model_req, sample_len)
SamplerOutput(execute_model_req, sample_len, gen) ==
    LET res == sampler_output(execute_model_req, sample_len, gen,
                              prev_request_context_lengths,
                              first_decode_step, accepted_token_lengths)
        lst == execute_model_req.seq_group_metadata_list
    IN  /\ prev_request_context_lengths' = res.prev
        /\ accepted_token_lengths' = res.accepted_token_lengths
        /\ call' = [status |-> res.status, assembled |-> res.assembled,
                    sample_len |-> sample_len,
                    generate_calls |-> res.generate_calls,
                    n_outputs |-> res.n_outputs, returned |-> res.returned,
                    transpose |-> res.transpose]
        /\ IF res.assembled
           THEN /\ asm' = AsmOf(lst, first_decode_step,
                              prev_request_context_lengths, res.asm)
                /\ hist' = Merge(hist, RecordedBy(asm))
           ELSE UNCHANGED <<asm, hist>>
        /\ UNCHANGED <<first_decode_step, stage, threads>>

\* the proposer model sets or clears its first_decode_step flag
SetFirstDecodeStep ==
    /\ first_decode_step' = ~first_decode_step
    /\ UNCHANGED <<prev_request_context_lengths, accepted_token_lengths, asm,
                   call, hist, stage, threads>>

\* ------------------------------------------------- specification: the tracker
\* prepare_input_tensors is called again and again on a worker whose model
\* keeps its first_decode_step flag as it was at construction.
CallPrepare ==
    \E ids \in IdLists :
        \E b \in [1..Len(ids) -> CallBodies(SeqCountsIn(ids), MaxLen)] :
            PrepareInputTensors(GroupList(ids, b)) /\ UNCHANGED stage

CallPrepareNone == PrepareInputTensors(NoneList) /\ UNCHANGED stage

Next == CallPrepare \/ CallPrepareNone

Spec == Init /\ [][Next]_vars

\* ------------------------------------- specification: the stages of a request
\* Every request goes PREFILL (one call per chunk of one token), then
\* CONTINUATION call after call, each with a longer history than the one before;
\* a request may sit out any call. The model's flag is set exactly in the calls
\* whose batch holds a request at its first continuation step. stage keeps how
\* far each request has come.
LastContext == Merge(hist, RecordedBy(asm))

\* the sequence data request r may bring to its next call
StageSeqDatas(r, is_prompt) ==
    IF is_prompt
    THEN {sd \in [len : {StagePromptLen},
                  num_computed_tokens : 0..(StagePromptLen - 1)] :
             IF stage[r] = "new"
             THEN sd.num_computed_tokens = 0
             ELSE /\ stage[r] = "prefill"
                  /\ sd.num_computed_tokens = LastContext[r] + 1}
    ELSE {sd \in [len : (StagePromptLen + 1)..MaxStageLen,
                  num_computed_tokens : {StagePromptLen}] :
             IF stage[r] = "prefill"
             THEN /\ LastContext[r] = StagePromptLen - 1
                  /\ sd.len = StagePromptLen + 1
             ELSE /\ stage[r] \in {"cont1", "cont2"}
                  /\ sd.len - 1 > LastContext[r]}

StageBodies(r) ==
    UNION {[is_prompt : {p}, token_chunk_size : {1},
            seq_data : {<<sd>> : sd \in StageSeqDatas(r, p)}] : p \in BOOLEAN}

\* the batch holds a request at its first continuation step
FirstDecodeStepOf(lst) ==
    \E i \in 1..Len(lst.items) :
        ~lst.items[i].is_prompt /\ stage[lst.items[i].request_id] = "prefill"

StagedPrepare ==
    \E ids \in IdLists \ {<<>>} :
        \E b \in [1..Len(ids) -> UNION {StageBodies(r) : r \in RequestIds}] :
            /\ \A i \in 1..Len(ids) : b[i] \in StageBodies(ids[i])
            /\ first_decode_step = FirstDecodeStepOf(GroupList(ids, b))
            /\ PrepareInputTensors(GroupList(ids, b))
            /\ stage' = StageAfter(stage, GroupList(ids, b))

NextStages == StagedPrepare \/ SetFirstDecodeStep

SpecStages == Init /\ [][NextStages]_vars

\* --------------------------------------------- specification: the first call
\* one call of prepare_input_tensors on a fresh worker, over every batch
FirstPrepare ==
    /\ asm.op = "none"
    /\ \E ids \in IdLists :
           \E b \in [1..Len(ids) -> FirstBodies(SeqCountsIn(ids))] :
               PrepareInputTensors(GroupList(ids, b)) /\ UNCHANGED stage

NextFirst == FirstPrepare

SpecFirst == Init /\ [][NextFirst]_vars

\* ------------------------------------------------ specification: the driver
\* sampler_output is called again and again over single-sequence batches
DriverLists ==
    {NoneList} \cup
    UNION {{GroupList(ids, b) : b \in [1..Len(ids) -> CallBodies({1}, MaxLen)]} :
           ids \in {i \in IdLists : Len(i) <= 1}}

\* what generate_proposals does for sample_len: it raises, or returns a list
GenOutcomes(sample_len) ==
    {[raises |-> TRUE, n |-> 0]} \cup
    {[raises |-> FALSE, n |-> k] : k \in (sample_len - 1)..(sample_len + 1)}

CallUnsupported ==
    \E lst \in DriverLists, sample_len \in 1..MaxSampleLen :
        SamplerOutput([seq_group_metadata_list |-> lst, supported |-> FALSE],
                      sample_len, [raises |-> FALSE, n |-> sample_len])

CallSupported ==
    \E lst \in DriverLists, sample_len \in 1..MaxSampleLen :
        \E gen \in GenOutcomes(sample_len) :
            SamplerOutput([seq_group_metadata_list |-> lst, supported |-> TRUE],
                          sample_len, gen)

NextDriver == CallUnsupported \/ CallSupported

SpecDriver == Init /\ [][NextDriver]_vars

\* ------------------------------------------- the calls, statement by statement
\* (mutant) the proposals are generated before the batch is assembled
sampler_output_steps_generate_first ==
    <<"_raise_if_unsupported", "generate_proposals", "prepare_input_tensors",
      "SamplingMetadata_prepare", "assert">>

\* the statements of sampler_output in program order; the return follows them
sampler_output_steps ==
    <<"_raise_if_unsupported", "prepare_input_tensors",
      "SamplingMetadata_prepare", "generate_proposals", "assert">>

\* (mutant) the difference is taken the other way round
accepted_length_reversed(ctx, prev_context_length) == prev_context_length - ctx

\* accepted_length = context_len - prev_context_length
accepted_length(ctx, prev_context_length) == ctx - prev_context_length

\* the appends of one sequence f whose context_len is ctx
extend_lists(st, f, ctx) ==
    LET sl == seq_len(f.seq_data, ctx, f.token_chunk_size)
    IN  [st EXCEPT
            !.seq_lens = Append(@, sl),
            !.context_lens = Append(@, ctx),
            !.query_lens = Append(@, sl - ctx),
            !.input_tokens = @ \o tokens(f.is_prompt, f.seq_data, ctx, sl),
            !.input_positions = @ \o Range(ctx, sl),
            !.seq_request_ids = Append(@, f.request_id)]

\* thread t makes one step and becomes th; the rest of the threads stay
ThreadBecomes(t, th) == threads' = [threads EXCEPT ![t] = th]

Began(t) == threads[t].op # "none"

Done(t) == threads[t].pc = "done"

\* thread t enters a call
Entering(t, op, req, sample_len, gen) ==
    [IdleThread EXCEPT
        !.op = op, !.req = req, !.sample_len = sample_len, !.gen = gen,
        !.flat = FlatFrom(req.seq_group_metadata_list.items, 1),
        !.prev_at_begin = prev_request_context_lengths,
        !.began_after = {u \in Threads \ {t} : Began(u)},
        !.began_after_done = {u \in Threads \ {t} : Done(u)}]

\* thread t calls sampler_output(execute_model_req, sample_len)
BeginSamplerOutput(t, execute_model_req, sample_len, gen) ==
    /\ threads[t].pc = "idle"
    /\ ThreadBecomes(t, [Entering(t, "sampler_output", execute_model_req,
                                  sample_len, gen)
                            EXCEPT !.pc = "driver", !.step = 1])
    /\ UNCHANGED <<prev_request_context_lengths, first_decode_step,
                   accepted_token_lengths, asm, call, hist, stage>>

\* thread t calls prepare_input_tensors(lst)
BeginPrepare(t, lst) ==
    /\ threads[t].pc = "idle"
    /\ ThreadBecomes(t, [Entering(t, "prepare_input_tensors",
                                  [seq_group_metadata_list |-> lst,
                                   supported |-> TRUE],
                                  0, [raises |-> FALSE, n |-> 0])
                            EXCEPT !.pc = "enter"])
    /\ UNCHANGED <<prev_request_context_lengths, first_decode_step,
                   accepted_token_lengths, asm, call, hist, stage>>

\* the thread as prepare_input_tensors returns to its caller
Returned(th) ==
    IF th.op = "sampler_output"
    THEN [th EXCEPT !.pc = "driver", !.step = @ + 1]
    ELSE [th EXCEPT !.pc = "done", !.status = "ok"]

\* one statement of sampler_output
DriverStep(t) ==
    LET th == threads[t]
        at == IF th.step <= Len(sampler_output_steps)
              THEN sampler_output_steps[th.step]
              ELSE "return"
    IN  /\ th.pc = "driver"
        /\ ThreadBecomes(t,
             CASE at = "_raise_if_unsupported" ->
                    IF raise_if_unsupported(th.req)
                    THEN [th EXCEPT !.pc = "done",
                                    !.status = "NotImplementedError",
                                    !.events = Append(@, "validate")]
                    ELSE [th EXCEPT !.step = @ + 1,
                                    !.events = Append(@, "validate")]
               [] at = "prepare_input_tensors" -> [th EXCEPT !.pc = "enter"]
               [] at = "SamplingMetadata_prepare" ->
                    [th EXCEPT !.step = @ + 1,
                               !.events = Append(@, "metadata")]
               [] at = "generate_proposals" ->
                    IF th.gen.raises
                    THEN [th EXCEPT !.pc = "done", !.status = "ModelError",
                                    !.generate_calls = @ + 1,
                                    !.events = Append(@, "generate")]
                    ELSE [th EXCEPT !.step = @ + 1,
                                    !.generate_calls = @ + 1,
                                    !.events = Append(@, "generate")]
               [] at = "assert" ->
                    IF output_count_ok(th.gen.n, th.sample_len)
                    THEN [th EXCEPT !.step = @ + 1,
                                    !.events = Append(@, "check")]
                    ELSE [th EXCEPT !.pc = "done", !.status = "AssertionError",
                                    !.events = Append(@, "check")]
               [] OTHER -> [th EXCEPT !.pc = "done", !.status = "ok"])
        /\ UNCHANGED <<prev_request_context_lengths, first_decode_step,
                       accepted_token_lengths, asm, call, hist, stage>>

\* `if not seq_group_metadata_list: return ModelInput.empty(...)`, else the
\* lists start empty
Enter(t) ==
    LET th == threads[t]
    IN  /\ th.pc = "enter"
        /\ ThreadBecomes(t,
             IF is_falsy(th.req.seq_group_metadata_list)
             THEN Returned([th EXCEPT !.empty = TRUE, !.st = ModelInput_empty,
                                      !.events = Append(@, "assemble")])
             ELSE [th EXCEPT !.pc = "loop", !.j = 1,
                             !.st = lists_of(fresh_lists(EmptyDict))])
        /\ UNCHANGED <<prev_request_context_lengths, first_decode_step,
                       accepted_token_lengths, asm, call, hist, stage>>

\* the next sequence: its window, its appends and the test `request_id in
\* self.prev_request_context_lengths`; after the last sequence, the loop ends
\* and the batch is assembled
Loop(t) ==
    LET th == threads[t]
    IN  /\ th.pc = "loop"
        /\ ThreadBecomes(t,
             IF th.j > Len(th.flat)
             THEN [th EXCEPT !.pc = "feedback",
                             !.events = Append(@, "assemble")]
             ELSE LET f == th.flat[th.j]
                      ctx == context_len(f.is_prompt, f.seq_data)
                  IN  [th EXCEPT
                          !.ctx = ctx,
                          !.st = extend_lists(@, f, ctx),
                          !.pc = IF f.request_id
                                      \in DOMAIN prev_request_context_lengths
                                 THEN "read" ELSE "store"])
        /\ UNCHANGED <<prev_request_context_lengths, first_decode_step,
                       accepted_token_lengths, asm, call, hist, stage>>

\* the read of the record and the append of the accepted length
Read(t) ==
    LET th == threads[t]
        r == th.flat[th.j].request_id
    IN  /\ th.pc = "read"
        /\ ThreadBecomes(t,
             [th EXCEPT
                 !.pc = "store",
                 !.st.accepted_lengths_list =
                     Append(@, accepted_length(
                                   th.ctx, prev_request_context_lengths[r])),
                 !.st.accepted_request_ids = Append(@, r)])
        /\ UNCHANGED <<prev_request_context_lengths, first_decode_step,
                       accepted_token_lengths, asm, call, hist, stage>>

\* self.prev_request_context_lengths[request_id] = context_len
Store(t) ==
    LET th == threads[t]
        r == th.flat[th.j].request_id
    IN  /\ th.pc = "store"
        /\ prev_request_context_lengths' =
               DictSet(prev_request_context_lengths, r, th.ctx)
        /\ ThreadBecomes(t, [th EXCEPT !.pc = "loop", !.j = @ + 1])
        /\ UNCHANGED <<first_decode_step, accepted_token_lengths, asm, call,
                       hist, stage>>

\* the write of the model's accepted_token_lengths when the flag allows it,
\* then the return of the four lists
Feedback(t) ==
    LET th == threads[t]
    IN  /\ th.pc = "feedback"
        /\ IF ~first_decode_step
           THEN /\ accepted_token_lengths' = th.st.accepted_lengths_list
                /\ ThreadBecomes(t, Returned([th EXCEPT
                                     !.events = Append(@, "feedback")]))
           ELSE /\ UNCHANGED accepted_token_lengths
                /\ ThreadBecomes(t, Returned(th))
        /\ UNCHANGED <<prev_request_context_lengths, first_decode_step, asm,
                       call, hist, stage>>

\* the caller takes the result; the thread is free for its next call
Finish(t) ==
    /\ threads[t].pc = "done"
    /\ ThreadBecomes(t, IdleThread)
    /\ UNCHANGED <<prev_request_context_lengths, first_decode_step,
                   accepted_token_lengths, asm, call, hist, stage>>

\* --------------------------------- specification: one call after another, by
\* statement. One thread calls sampler_output again and again.
StepBegin ==
    \E lst \in DriverLists, supported \in BOOLEAN,
       sample_len \in 1..MaxSampleLen :
        \E gen \in GenOutcomes(sample_len) :
            BeginSamplerOutput("t1", [seq_group_metadata_list |-> lst,
                                      supported |-> supported],
                               sample_len, gen)

NextSteps ==
    \/ StepBegin
    \/ DriverStep("t1")
    \/ Enter("t1")
    \/ Loop("t1")
    \/ Read("t1")
    \/ Store("t1")
    \/ Feedback("t1")
    \/ Finish("t1")

SpecSteps == Init /\ [][NextSteps]_vars

\* ------------------------------------- specification: two calls side by side
\* After at most one call that ran alone, two threads call
\* prepare_input_tensors once each, with nothing that serializes them: their
\* statements interleave in every way, the serial orders included.
RaceLists ==
    UNION {{GroupList(ids, b) : b \in [1..1 -> CallBodies({1}, MaxRaceLen)]} :
           ids \in {i \in IdLists : Len(i) = 1}}

\* the call that ran alone: a decoding sequence of request r1
RaceSeed ==
    /\ asm.op = "none"
    /\ \A t \in Threads : ~Began(t)
    /\ \E sd \in CallSeqDatas(FALSE, MaxRaceLen) :
           PrepareInputTensors(
               GroupList(<<"r1">>,
                         <<[is_prompt |-> FALSE, token_chunk_size |-> 1,
                            seq_data |-> <<sd>>]>>))
    /\ UNCHANGED stage

RaceBegin ==
    \E t \in Threads, lst \in RaceLists : ~Began(t) /\ BeginPrepare(t, lst)

RaceEnter == \E t \in Threads : Enter(t)

RaceLoop == \E t \in Threads : Loop(t)

RaceRead == \E t \in Threads : Read(t)

RaceStore == \E t \in Threads : Store(t)

RaceFeedback == \E t \in Threads : Feedback(t)

NextRace ==
    \/ RaceSeed
    \/ RaceBegin
    \/ RaceEnter
    \/ RaceLoop
    \/ RaceRead
    \/ RaceStore
    \/ RaceFeedback

SpecRace == Init /\ [][NextRace]_vars

\* ------------------------------------------------------------- claims
Called == asm.op = "prepare_input_tensors"

\* the request ids of the batch of call a
BatchIds(a) == {a.lst.items[i].request_id : i \in 1..Len(a.lst.items)}

\* the places of the accepted lengths that call a appended for request r
EntriesFor(a, r) ==
    {k \in 1..Len(a.lists.accepted_request_ids) :
        a.lists.accepted_request_ids[k] = r}

\* the sequences of the batch of call a in iteration order
Flat(a) == FlatFrom(a.lst.items, 1)

\* C1: a request with exactly one sequence that an earlier call recorded gets
\* exactly one accepted length in the current call, and it is its current
\* context_len minus the context_len the most recent earlier call recorded for
\* it.
C1_AcceptedLengthIsDelta ==
    (Called /\ ~asm.empty) =>
        \A i \in 1..Len(asm.lst.items) :
            LET g == asm.lst.items[i]
                r == g.request_id
            IN  (Len(g.seq_data) = 1 /\ r \in DOMAIN hist) =>
                    \E k \in EntriesFor(asm, r), j \in SeqsOf(asm, r) :
                        /\ EntriesFor(asm, r) = {k}
                        /\ SeqsOf(asm, r) = {j}
                        /\ asm.lists.accepted_lengths_list[k] =
                               asm.lists.context_lens[j] - hist[r]

\* a single-sequence request recorded earlier comes back with another context
\* length, in a batch whose other request is met for the first time
C1_Witness ==
    /\ Called
    /\ \E i \in 1..Len(asm.lst.items) :
           LET g == asm.lst.items[i]
               r == g.request_id
           IN  /\ Len(g.seq_data) = 1
               /\ r \in DOMAIN hist
               /\ \E k \in EntriesFor(asm, r) :
                      asm.lists.accepted_lengths_list[k] # 0
    /\ \E q \in BatchIds(asm) : q \notin DOMAIN hist

\* C2: a request whose identifier is not in the map when the call starts
\* contributes no accepted length in that call, however many sequences it holds.
C2_NoEntryWithoutPriorState ==
    (Called /\ ~asm.empty) =>
        \A r \in BatchIds(asm) :
            r \notin DOMAIN asm.prev_before => EntriesFor(asm, r) = {}

\* C3: a request that comes back after one or more calls whose batch it was
\* absent from gets no accepted length in the call of its reappearance. (Stated
\* for a gap whose latest call assembled a batch of other requests.)
C3_FreshAfterGap ==
    [][\A r \in RequestIds :
           (/\ Called
            /\ asm.lists.seq_request_ids # <<>>
            /\ r \in DOMAIN hist
            /\ r \notin BatchIds(asm)
            /\ r \in BatchIds(asm')
            /\ SeqsOf(asm', r) # {})
           => EntriesFor(asm', r) = {}]_vars

\* C4: no accepted length of a request reaches the model's accepted_token_lengths
\* in a prefill call or in the request's first continuation call, and one does
\* in every continuation call from the second on.
C4_FeedbackFollowsStage ==
    (Called /\ ~asm.empty) =>
        \A r \in BatchIds(asm) :
            /\ stage[r] \in {"prefill", "cont1"} =>
                   ~(asm.wrote_feedback /\ EntriesFor(asm, r) # {})
            /\ stage[r] = "cont2" =>
                   (asm.wrote_feedback /\ EntriesFor(asm, r) # {})

\* C5: a call of sampler_output that fails validation leaves the map and the
\* model's accepted_token_lengths as they were, assembles nothing and does not
\* invoke generate_proposals.
C5_ValidationFailsFirst ==
    [][call'.status = "NotImplementedError" =>
           /\ prev_request_context_lengths' = prev_request_context_lengths
           /\ accepted_token_lengths' = accepted_token_lengths
           /\ asm' = asm
           /\ ~call'.assembled
           /\ call'.generate_calls = 0
           /\ ~call'.returned]_vars

\* a validation failure on a worker whose map and feedback field hold entries
C5_Witness ==
    /\ call.status = "NotImplementedError"
    /\ prev_request_context_lengths # EmptyDict
    /\ accepted_token_lengths # <<>>
    /\ ~first_decode_step

\* C6: a call with an empty or absent list returns the empty-batch sentinel,
\* leaves the map unchanged and does not write accepted_token_lengths.
C6_EmptyCallChangesNothing ==
    [][is_falsy(asm'.lst) =>
           /\ asm'.empty
           /\ asm'.lists = ModelInput_empty
           /\ ~asm'.wrote_feedback
           /\ prev_request_context_lengths' = prev_request_context_lengths
           /\ accepted_token_lengths' = accepted_token_lengths]_vars

\* an empty (not absent) list reaches a worker whose map and feedback field hold
\* entries and whose model would accept a write
C6_Witness ==
    /\ Called
    /\ ~asm.lst.is_none
    /\ asm.lst.items = <<>>
    /\ asm.empty
    /\ prev_request_context_lengths # EmptyDict
    /\ accepted_token_lengths # <<>>
    /\ ~asm.fds

\* C7: when generate_proposals returns a number of outputs other than
\* sample_len, sampler_output ends in the assertion failure and returns nothing;
\* what it returns always has sample_len outputs.
C7_WrongCountIsFatal ==
    /\ (call.generate_calls = 1 /\ call.status # "ModelError"
        /\ call.n_outputs # call.sample_len)
       => (call.status = "AssertionError" /\ ~call.returned)
    /\ call.returned => call.n_outputs = call.sample_len

\* generate_proposals returned sample_len - 1 outputs
C7_Witness ==
    /\ call.status = "AssertionError"
    /\ call.n_outputs = call.sample_len - 1
    /\ ~call.returned

FailedAfterAssembly(c) == c.status \in {"AssertionError", "ModelError"}

\* C8: when sampler_output fails after assembly, the map holds what that
\* assembly recorded for every request of the batch, and the next call computes
\* the accepted length of a single-sequence request against that record.
C8_NoRollback ==
    [][/\ FailedAfterAssembly(call') =>
              \A r \in DOMAIN RecordedBy(asm') :
                  /\ r \in DOMAIN prev_request_context_lengths'
                  /\ prev_request_context_lengths'[r] = RecordedBy(asm')[r]
       /\ (FailedAfterAssembly(call) /\ call'.assembled) =>
              \A r \in DOMAIN RecordedBy(asm) :
                  \A j \in SeqsOf(asm', r) :
                      SeqsOf(asm', r) = {j} =>
                          \E k \in EntriesFor(asm', r) :
                              asm'.lists.accepted_lengths_list[k] =
                                  asm'.lists.context_lens[j]
                                      - RecordedBy(asm)[r]]_vars

\* a failed call has replaced the context length recorded for a request
C8_Witness ==
    /\ FailedAfterAssembly(call)
    /\ \E r \in DOMAIN RecordedBy(asm) :
           /\ r \in DOMAIN hist
           /\ hist[r] # RecordedBy(asm)[r]
           /\ prev_request_context_lengths[r] = RecordedBy(asm)[r]

AllPrefill(a) == \A i \in 1..Len(a.lst.items) : a.lst.items[i].is_prompt

\* C9: in an all-prefill batch every sequence has context_len equal to its
\* computed-token count, seq_len = min(total_len, context_len + chunk_size) and
\* so at most total_len, and query_len = seq_len - context_len >= 0.
C9_PrefillWindows ==
    (Called /\ ~asm.empty /\ AllPrefill(asm)) =>
        /\ Len(asm.lists.context_lens) = Len(Flat(asm))
        /\ Len(asm.lists.seq_lens) = Len(Flat(asm))
        /\ Len(asm.lists.query_lens) = Len(Flat(asm))
        /\ \A j \in 1..Len(Flat(asm)) :
               LET f == Flat(asm)[j]
                   ctx == asm.lists.context_lens[j]
                   sl == asm.lists.seq_lens[j]
                   ql == asm.lists.query_lens[j]
               IN  /\ ctx = f.seq_data.num_computed_tokens
                   /\ sl = Min(f.seq_data.len, ctx + f.token_chunk_size)
                   /\ sl <= f.seq_data.len
                   /\ ql = sl - ctx
                   /\ ql >= 0

\* an all-prefill batch holds a chunk that ends before its prompt does, after a
\* sequence whose prompt is wholly computed
C9_Witness ==
    /\ Called /\ ~asm.empty /\ AllPrefill(asm)
    /\ \E j \in 1..Len(Flat(asm)) :
           /\ asm.lists.context_lens[j] > 0
           /\ asm.lists.query_lens[j] > 0
           /\ asm.lists.seq_lens[j] < Flat(asm)[j].seq_data.len
    /\ \E j \in 1..Len(Flat(asm)) : asm.lists.query_lens[j] = 0

\* C10: a continuation sequence has context_len = total_len - 1, whatever the
\* chunk size and whatever its computed-token count.
C10_DecodeContextLen ==
    (Called /\ ~asm.empty) =>
        /\ Len(asm.lists.context_lens) = Len(Flat(asm))
        /\ \A j \in 1..Len(Flat(asm)) :
               ~Flat(asm)[j].is_prompt =>
                   asm.lists.context_lens[j] = Flat(asm)[j].seq_data.len - 1

\* a continuation sequence whose computed-token count is not total_len - 1, in
\* a group of chunk size 0
C10_Witness ==
    /\ Called /\ ~asm.empty
    /\ \E j \in 1..Len(Flat(asm)) :
           LET f == Flat(asm)[j]
           IN  /\ ~f.is_prompt
               /\ f.token_chunk_size = 0
               /\ f.seq_data.num_computed_tokens # f.seq_data.len - 1
               /\ f.seq_data.len > 1

\* C11: a sampler_output call that returns normally returns exactly sample_len
\* step outputs and the transpose flag true, after one invocation of
\* generate_proposals; the flag is true for every batch, the empty one included.
C11_ReturnsSampleLenAndTrue ==
    call.returned =>
        /\ call.status = "ok"
        /\ call.assembled
        /\ call.generate_calls = 1
        /\ call.n_outputs = call.sample_len
        /\ call.transpose

\* a call over a batch of one prompt returned, on a worker that had seen the
\* request before
C11_Witness ==
    /\ call.returned
    /\ call.sample_len = MaxSampleLen
    /\ Called
    /\ ~asm.empty
    /\ AllPrefill(asm)
    /\ asm.lists.accepted_lengths_list # <<>>

\* the request ids of seq s that were in the map when call a started
KnownIn(a, s) ==
    LET Known(r) == r \in DOMAIN a.prev_before
    IN  SelectSeq(s, Known)

\* the request ids of the groups of call a that hold a sequence and were in the
\* map when the call started, in the order of the batch
WithPriorState(a) ==
    LET HoldsSeq(g) == g.seq_data # <<>>
        held == SelectSeq(a.lst.items, HoldsSeq)
    IN  KnownIn(a, [i \in 1..Len(held) |-> held[i].request_id])

\* C12: the accepted lengths built by one call hold exactly one entry per
\* request of the batch that was in the map when the call started, in batch
\* order, also when a request holds more than one sequence. (Entries of
\* requests that were not in the map, and groups that hold no sequence, are
\* left aside here.)
C12_OneEntryPerRequest ==
    (Called /\ ~asm.empty) =>
        KnownIn(asm, asm.lists.accepted_request_ids) = WithPriorState(asm)

\* the sum of the entries of a sequence of numbers
RECURSIVE Sum(_)
Sum(s) == IF s = <<>> THEN 0 ELSE Head(s) + Sum(Tail(s))

\* C13: the token list and the position list have the same length, the sum of
\* the query_len entries, for prefill and continuation sequences and for every
\* chunk size from 0 up; seq_lens and query_lens hold one entry per sequence.
C13_ListsAligned ==
    (Called /\ ~asm.empty) =>
        /\ Len(asm.lists.seq_lens) = Len(Flat(asm))
        /\ Len(asm.lists.query_lens) = Len(Flat(asm))
        /\ Len(asm.lists.input_positions) = Sum(asm.lists.query_lens)
        /\ Len(asm.lists.input_tokens) = Sum(asm.lists.query_lens)
        /\ Len(asm.lists.input_tokens) = Len(asm.lists.input_positions)

\* C14: after a call with a non-empty batch the map holds, for every request
\* of the batch with at least one sequence, the context_len this call computed
\* for its last sequence, with or without prior state and whatever the model's
\* first_decode_step flag; every other entry is as it was before the call.
C14_MapHoldsLastContextLen ==
    (Called /\ ~asm.empty) =>
        /\ DOMAIN prev_request_context_lengths =
               (DOMAIN asm.prev_before) \cup (DOMAIN RecordedBy(asm))
        /\ \A r \in DOMAIN prev_request_context_lengths :
               prev_request_context_lengths[r] =
                   IF r \in DOMAIN RecordedBy(asm)
                   THEN asm.lists.context_lens[Last(SeqsOf(asm, r))]
                   ELSE asm.prev_before[r]

\* with the flag set, a call replaces the record of one request by another
\* value, that of the second of its two sequences, and keeps the record of a
\* request outside the batch
C14_Witness ==
    /\ Called /\ ~asm.empty /\ asm.fds
    /\ \E r \in DOMAIN RecordedBy(asm) :
           /\ r \in DOMAIN asm.prev_before
           /\ asm.prev_before[r] # prev_request_context_lengths[r]
           /\ Cardinality(SeqsOf(asm, r)) = 2
           /\ \E i \in SeqsOf(asm, r) :
                  asm.lists.context_lens[i] # prev_request_context_lengths[r]
    /\ \E q \in DOMAIN asm.prev_before : q \notin BatchIds(asm)

\* the requests that held a sequence in some non-empty batch assembled so far
SeenSoFar ==
    (DOMAIN hist) \cup {r \in RequestIds : GroupOf(asm.lst, r) # {}}

\* C15: the map is empty at creation, its key set never loses a key, and it is
\* always the set of request ids that held at least one sequence in some
\* non-empty batch assembled since the worker was created.
C15_MapNeverPruned ==
    /\ [](DOMAIN prev_request_context_lengths = SeenSoFar)
    /\ [][DOMAIN prev_request_context_lengths
              \subseteq DOMAIN prev_request_context_lengths']_vars

\* the map holds every request, after a call whose only group holds no
\* sequence and after an earlier call that held another request
C15_Witness ==
    /\ Called /\ ~asm.empty
    /\ prev_request_context_lengths # EmptyDict
    /\ DOMAIN RecordedBy(asm) = {}
    /\ DOMAIN prev_request_context_lengths = RequestIds
    /\ \E r \in BatchIds(asm) : GroupOf(asm.lst, r) = {}

\* the accepted lengths a call over lst computes from map m: for each sequence
\* whose request is in the map by then, its context_len minus the record
RECURSIVE DeltasFrom(_, _, _)
DeltasFrom(flat, j, m) ==
    IF j > Len(flat)
    THEN <<>>
    ELSE LET f == flat[j]
             ctx == IF f.is_prompt THEN f.seq_data.num_computed_tokens
                    ELSE f.seq_data.len - 1
             rest == DeltasFrom(flat, j + 1,
                                Merge(m, [r \in {f.request_id} |-> ctx]))
         IN  IF f.request_id \in DOMAIN m
             THEN <<ctx - m[f.request_id]>> \o rest
             ELSE rest

\* C16: a non-empty call made while the model's first_decode_step flag is set
\* still computes the accepted lengths and updates the map but leaves
\* accepted_token_lengths as it was; one made while the flag is clear
\* overwrites the field with exactly the entries of this call, never appended
\* to earlier ones. The call does not change the flag.
C16_FlagGatesFeedback ==
    [][(asm' # asm /\ ~asm'.empty) =>
           /\ first_decode_step' = first_decode_step
           /\ asm'.fds = first_decode_step
           /\ asm'.lists.accepted_lengths_list =
                  DeltasFrom(Flat(asm'), 1, prev_request_context_lengths)
           /\ \A r \in DOMAIN RecordedBy(asm') :
                  /\ r \in DOMAIN prev_request_context_lengths'
                  /\ prev_request_context_lengths'[r] = RecordedBy(asm')[r]
           /\ IF first_decode_step
              THEN accepted_token_lengths' = accepted_token_lengths
              ELSE accepted_token_lengths' = asm'.lists.accepted_lengths_list]_vars

\* a call made with the flag set has computed an accepted length and replaced
\* a record, and the field still holds the entry of an earlier call
C16_Witness ==
    /\ Called /\ ~asm.empty /\ asm.fds
    /\ asm.lists.accepted_lengths_list # <<>>
    /\ accepted_token_lengths # <<>>
    /\ accepted_token_lengths # asm.lists.accepted_lengths_list
    /\ \E r \in DOMAIN RecordedBy(asm) :
           /\ r \in DOMAIN asm.prev_before
           /\ asm.prev_before[r] # prev_request_context_lengths[r]

\* the place of a step of sampler_output in the order validation, batch
\* assembly, feedback write, sampling metadata, generate_proposals, count check
StepRank(e) ==
    CASE e = "validate" -> 1
      [] e = "assemble" -> 2
      [] e = "feedback" -> 3
      [] e = "metadata" -> 4
      [] e = "generate" -> 5
      [] e = "check" -> 6

\* request id -> context_len of its last sequence in the batch of thread th
LastContextLens(th) ==
    [r \in {th.flat[j].request_id : j \in 1..Len(th.flat)} |->
        LET js == {j \in 1..Len(th.flat) : th.flat[j].request_id = r}
            f == th.flat[Last(js)]
        IN  IF f.is_prompt THEN f.seq_data.num_computed_tokens
            ELSE f.seq_data.len - 1]

\* C17: the steps of one sampler_output call come in the order validation,
\* batch assembly with the map update, feedback write, sampling metadata,
\* generate_proposals, count check; when generate_proposals has been invoked
\* the map holds the context_len of every sequence's request and, where the
\* flag allows the write, the model holds this call's accepted lengths.
C17_StepsInOrder ==
    LET th == threads["t1"]
        ev == th.events
        has(e) == \E i \in 1..Len(ev) : ev[i] = e
    IN  th.op = "sampler_output" =>
            /\ \A i, k \in 1..Len(ev) :
                   i < k => StepRank(ev[i]) < StepRank(ev[k])
            /\ has("generate") =>
                   /\ th.generate_calls = 1
                   /\ has("validate") /\ has("assemble") /\ has("metadata")
                   /\ th.j = Len(th.flat) + 1 \/ th.empty
                   /\ \A r \in DOMAIN LastContextLens(th) :
                          /\ r \in DOMAIN prev_request_context_lengths
                          /\ prev_request_context_lengths[r] =
                                 LastContextLens(th)[r]
                   /\ (~first_decode_step /\ ~th.empty) =>
                          /\ has("feedback")
                          /\ accepted_token_lengths =
                                 th.st.accepted_lengths_list
            /\ has("check") => has("generate")

\* generate_proposals has just been invoked in a call that replaced the record
\* of a request and wrote a non-zero accepted length to the model
C17_Witness ==
    LET th == threads["t1"]
    IN  /\ th.op = "sampler_output"
        /\ th.events =
               <<"validate", "assemble", "feedback", "metadata", "generate">>
        /\ accepted_token_lengths # <<>>
        /\ \E k \in 1..Len(accepted_token_lengths) :
               accepted_token_lengths[k] # 0
        /\ \E r \in DOMAIN LastContextLens(th) :
               /\ r \in DOMAIN th.prev_at_begin
               /\ th.prev_at_begin[r] # prev_request_context_lengths[r]

\* the accepted lengths of request r among those of lists x, in order
LengthsFor(x, r) ==
    LET pairs == [k \in 1..Len(x.accepted_lengths_list) |->
                     <<x.accepted_request_ids[k], x.accepted_lengths_list[k]>>]
        IsR(p) == p[1] = r
        sel == SelectSeq(pairs, IsR)
    IN  [k \in 1..Len(sel) |-> sel[k][2]]

\* what two calls leave for request r: the accepted lengths each emitted for
\* it and the context length recorded for it in map m
OutcomeFor(x1, x2, m, r) ==
    [first |-> LengthsFor(x1, r), second |-> LengthsFor(x2, r),
     recorded |-> IF r \in DOMAIN m THEN <<m[r]>> ELSE <<>>]

\* what the calls of threads t and u leave for request r
ActualFor(t, u, r) ==
    OutcomeFor(threads[t].st, threads[u].st, prev_request_context_lengths, r)

\* the map the first of the two calls found
RaceBase ==
    IF threads["t1"].began_after = {}
    THEN threads["t1"].prev_at_begin
    ELSE threads["t2"].prev_at_begin

\* what the call of t followed by the call of u, each run alone, leave for r
SerialFor(t, u, r) ==
    LET a == prepare_input_tensors(threads[t].req.seq_group_metadata_list,
                                   RaceBase, first_decode_step, <<>>)
        b == prepare_input_tensors(threads[u].req.seq_group_metadata_list,
                                   a.prev, first_decode_step, <<>>)
    IN  OutcomeFor(a.lists, b.lists, b.prev, r)

\* the request ids the batches of both calls hold
SharedIds ==
    {r \in RequestIds :
        \A t \in Threads :
            \E j \in 1..Len(threads[t].flat) : threads[t].flat[j].request_id = r}

BothDone == \A t \in Threads : Done(t)

\* neither call began after the other had returned
Overlapped ==
    /\ "t1" \notin threads["t2"].began_after_done
    /\ "t2" \notin threads["t1"].began_after_done

\* what the two calls left for r is what neither serial order leaves
Anomaly(r) ==
    /\ ActualFor("t1", "t2", r) # SerialFor("t1", "t2", r)
    /\ ActualFor("t1", "t2", r) #
           [first |-> SerialFor("t2", "t1", r).second,
            second |-> SerialFor("t2", "t1", r).first,
            recorded |-> SerialFor("t2", "t1", r).recorded]

\* C18: nothing serializes two prepare_input_tensors calls on the map. When
\* one call returns before the other begins, they leave for every request the
\* accepted lengths and the record of that serial order; an outcome for a
\* shared request that differs from both serial orders arises only when the
\* calls interleave (and does arise: C18_Witness).
C18_OnlySerialCallsAgree ==
    BothDone =>
        /\ "t1" \in threads["t2"].began_after_done =>
               \A r \in RequestIds :
                   ActualFor("t1", "t2", r) = SerialFor("t1", "t2", r)
        /\ "t2" \in threads["t1"].began_after_done =>
               \A r \in RequestIds :
                   ActualFor("t2", "t1", r) = SerialFor("t2", "t1", r)
        /\ \A r \in SharedIds : Anomaly(r) => Overlapped

\* two interleaved calls on a request that was in the map: both took their
\* accepted length against the same record, which no serial order does
C18_Witness ==
    /\ BothDone
    /\ Overlapped
    /\ \E r \in SharedIds :
           /\ r \in DOMAIN RaceBase
           /\ Anomaly(r)
           /\ ActualFor("t1", "t2", r).first # <<>>
           /\ ActualFor("t1", "t2", r).second # <<>>

====
